---- MODULE Spec2Model ----
(***************************************************************************)
(* A model of src/src/main.rs: HashS2T, a fixed-capacity hash table with   *)
(* closed addressing (one optional Vec of HashItem per bucket), its hash   *)
(* function default_hash, and its two iterators.                           *)
(*                                                                         *)
(* A key is a sequence of Unicode code points.  Rust indexes the bucket    *)
(* vector from 0; the model keeps the 0-based index i of the code and      *)
(* reads the TLA+ sequence at i + 1.                                       *)
(*                                                                         *)
(* default_hash sums the code points in a usize.  The sum can only exceed  *)
(* usize::MAX for keys of more than 2^43 characters, so the wrap (release) *)
(* or overflow panic (debug) of that sum is out of reach of every key      *)
(* considered here and the sum is modelled as an unbounded integer.        *)
(***************************************************************************)
EXTENDS Integers, Sequences, FiniteSets, TLC

\* ---------------------------------------------------------------- bounds
\* most entries a table is allowed to hold in the model
MaxEntries == 3

\* ------------------------------------------------------------- constants
DEFAULT_HASH2ST_SIZE == 256

\* The keys the caller uses, as sequences of code points: "a", the anagrams
\* "ab" and "ba", and "b" followed by U+0161.  U+0161 is 'a' + 256, so the
\* last key shares bucket 195 with "ab" and "ba" in a table of 256 buckets
\* without being an anagram of them; with 3 buckets it shares bucket 1
\* with "a" instead.
Keys == {<<97>>, <<97, 98>>, <<98, 97>>, <<98, 353>>}

\* The numbers of buckets of the explicitly constructed tables: none, and
\* three (two keys in bucket 0, two in bucket 1, bucket 2 never allocated).
Capacities == {0, 3}

\* The values the caller stores.  The table never inspects a value (it is
\* generic in T), so two values are enough to tell a store from no store.
Values == {1, 2}

\* -------------------------------------------------------------- Option<T>
None == [some |-> FALSE]

Some(x) == [some |-> TRUE, val |-> x]

\* ------------------------------------------------------------ default_hash
\* a sum that weights every code point by its position in the key
RECURSIVE CharSum_weighted(_)
CharSum_weighted(s) ==
    IF s = <<>> THEN 0 ELSE Len(s) * s[Len(s)] + CharSum_weighted(SubSeq(s, 1, Len(s) - 1))

\* s.chars().map(..).sum::<usize>()
RECURSIVE CharSum(_)
CharSum(s) == IF s = <<>> THEN 0 ELSE Head(s) + CharSum(Tail(s))

\* the result of a call that may panic
Panic == [panic |-> TRUE]

Ok(x) == [panic |-> FALSE, val |-> x]

\* a hash that takes the remainder by one more than the capacity
default_hash_off(s, len) == IF len = 0 THEN Panic ELSE Ok(CharSum(s) % (len + 1))

\* "% len" panics when len is 0 ("attempt to calculate the remainder with
\* a divisor of zero", in debug and in release builds)
default_hash(s, len) == IF len = 0 THEN Panic ELSE Ok(CharSum(s) % len)

\* ------------------------------------------------------------ constructors
\* a default table whose buckets all hold an empty chain
Default_empty_chains ==
    [items |-> [i \in 1..DEFAULT_HASH2ST_SIZE |-> Some(<<>>)], stat_collisions |-> 0,
     made |-> [by |-> "default"]]

\* impl Default: DEFAULT_HASH2ST_SIZE buckets, all None, no collisions
Default ==
    [items |-> [i \in 1..DEFAULT_HASH2ST_SIZE |-> None], stat_collisions |-> 0,
     made |-> [by |-> "default"]]

\* a table built with `capacity` empty buckets
construct(capacity) ==
    [items |-> [i \in 1..capacity |-> None], stat_collisions |-> 0,
     made |-> [by |-> "construct", capacity |-> capacity]]

NewTables == {Default} \cup {construct(c) : c \in Capacities}

\* ------------------------------------------------------------------ state
VARIABLES
    items,            \* HashS2T.items: Vec<Option<Vec<HashItem>>>
    stat_collisions,  \* HashS2T.stat_collisions
    alive,            \* FALSE once the table was moved into into_iter
    panicked,         \* TRUE once a call panicked (the caller unwinds)
    last,             \* the most recent call on the table and its result
    it,               \* the iterator currently held by the caller, if any
    written,          \* history: key -> value most recently stored for it
    first,            \* history: keys in order of their first insert
    made              \* history: how the table was constructed

vars == <<items, stat_collisions, alive, panicked, last, it, written, first,
          made>>

NoIter == [kind |-> "none"]

\* `written` of a key that no call has stored a value for
NotWritten == [some |-> FALSE]

\* `written` of a key whose latest value, stored by insert or through the
\* reference of get_mut, is v
Stored(v) == [some |-> TRUE, val |-> v]

Init ==
    /\ \E t \in NewTables :
         /\ items = t.items
         /\ stat_collisions = t.stat_collisions
         /\ made = t.made
    /\ alive = TRUE
    /\ panicked = FALSE
    /\ last = [op |-> "new"]
    /\ it = NoIter
    /\ written = [k \in Keys |-> NotWritten]
    /\ first = <<>>

\* ----------------------------------------------------------------- lookup
\* a find that takes the head of the chain without comparing keys
Find_head(chain, k) == IF chain = <<>> THEN None ELSE Some(1)

\* items.iter().find(|item| item.k == k): first match in the chain
RECURSIVE Find(_, _)
Find(chain, k) ==
    IF chain = <<>> THEN None
    ELSE IF Head(chain).k = k THEN Some(1)
    ELSE LET r == Find(Tail(chain), k)
         IN  IF r.some THEN Some(r.val + 1) ELSE None

\* a get_item without the guard for a table that has no bucket
get_item_unguarded(its, k) ==
    LET h == default_hash(k, Len(its))
    IN  IF h.panic THEN Panic
        ELSE LET i    == h.val
                 node == its[i + 1]
             IN  IF ~node.some THEN Ok(None)
                 ELSE LET r == Find(node.val, k)
                      IN  Ok(IF r.some THEN Some(<<i, r.val>>) ELSE None)

\* get_item: where the item with key k is, as Some(<<i, j>>) (bucket index
\* i, 0-based; position j in the chain, 1-based), or None
get_item(its, k) ==
    IF Len(its) = 0 THEN Ok(None)
    ELSE LET h == default_hash(k, Len(its))
         IN  IF h.panic THEN Panic
             ELSE LET i    == h.val
                      node == its[i + 1]
                  IN  IF ~node.some THEN Ok(None)
                      ELSE LET r == Find(node.val, k)
                           IN  Ok(IF r.some THEN Some(<<i, r.val>>) ELSE None)

\* a get_item_mut that never finds the key
get_item_mut_blind(its, k) == Ok(None)

\* get_item_mut: the same search, for a mutable reference to the item
get_item_mut(its, k) ==
    IF Len(its) = 0 THEN Ok(None)
    ELSE LET h == default_hash(k, Len(its))
         IN  IF h.panic THEN Panic
             ELSE LET i    == h.val
                      node == its[i + 1]
                  IN  IF ~node.some THEN Ok(None)
                      ELSE LET r == Find(node.val, k)
                           IN  Ok(IF r.some THEN Some(<<i, r.val>>) ELSE None)

\* get: the value of the item found
get(its, k) ==
    LET r == get_item(its, k)
    IN  IF r.panic THEN Panic
        ELSE Ok(IF r.val.some
                THEN Some(its[r.val.val[1] + 1].val[r.val.val[2]].v)
                ELSE None)

\* the buckets that hold a chain, by 0-based index
Allocated(its) == {i \in 0..(Len(its) - 1) : its[i + 1].some}

RECURSIVE SumLen(_, _)
SumLen(its, S) ==
    IF S = {} THEN 0
    ELSE LET i == CHOOSE x \in S : TRUE
         IN  Len(its[i + 1].val) + SumLen(its, S \ {i})

\* number of entries stored in the whole table
Count(its) == SumLen(its, Allocated(its))

\* ----------------------------------------------------------------- insert
\* the outcome of an insert: the table afterwards, whether the key was
\* found, whether its bucket was allocated, whether the call panicked
Outcome(its, sc, found, occupied, panic) ==
    [items |-> its, stat_collisions |-> sc,
     found |-> found, occupied |-> occupied, panic |-> panic]

\* an insert that replaces the chain of an allocated bucket by the new item
insert_clobber(its, sc, k, v) ==
    LET found == get_item_mut(its, k)
    IN  IF found.panic THEN Outcome(its, sc, FALSE, FALSE, TRUE)
        ELSE IF found.val.some
        THEN Outcome([its EXCEPT ![found.val.val[1] + 1].val[found.val.val[2]].v = v],
                     sc, TRUE, TRUE, FALSE)
        ELSE LET h == default_hash(k, Len(its))
             IN  IF h.panic THEN Outcome(its, sc, FALSE, FALSE, TRUE)
                 ELSE LET i    == h.val
                          item == [k |-> k, v |-> v]
                      IN  Outcome([its EXCEPT ![i + 1] = Some(<<item>>)],
                                  sc + (IF its[i + 1].some THEN 1 ELSE 0),
                                  FALSE, its[i + 1].some, FALSE)

\* an insert that skips the lookup and always adds an item
insert_no_lookup(its, sc, k, v) ==
    LET h == default_hash(k, Len(its))
    IN  IF h.panic THEN Outcome(its, sc, FALSE, FALSE, TRUE)
        ELSE LET i    == h.val
                 item == [k |-> k, v |-> v]
                 was  == get_item_mut(its, k).val.some
             IN  IF its[i + 1].some
                 THEN Outcome([its EXCEPT ![i + 1].val = Append(@, item)],
                              sc + 1, was, TRUE, FALSE)
                 ELSE Outcome([its EXCEPT ![i + 1] = Some(<<item>>)],
                              sc, was, FALSE, FALSE)

\* an insert that adds the length of the chain to the collision counter
insert_count_chain(its, sc, k, v) ==
    LET found == get_item_mut(its, k)
    IN  IF found.panic THEN Outcome(its, sc, FALSE, FALSE, TRUE)
        ELSE IF found.val.some
        THEN Outcome([its EXCEPT ![found.val.val[1] + 1].val[found.val.val[2]].v = v],
                     sc, TRUE, TRUE, FALSE)
        ELSE LET h == default_hash(k, Len(its))
             IN  IF h.panic THEN Outcome(its, sc, FALSE, FALSE, TRUE)
                 ELSE LET i    == h.val
                          item == [k |-> k, v |-> v]
                      IN  IF its[i + 1].some
                          THEN Outcome([its EXCEPT ![i + 1].val = Append(@, item)],
                                       sc + Len(its[i + 1].val), FALSE, TRUE, FALSE)
                          ELSE Outcome([its EXCEPT ![i + 1] = Some(<<item>>)],
                                       sc, FALSE, FALSE, FALSE)

\* an insert that grows the bucket vector when the bucket is allocated
insert_grow(its, sc, k, v) ==
    LET found == get_item_mut(its, k)
    IN  IF found.panic THEN Outcome(its, sc, FALSE, FALSE, TRUE)
        ELSE IF found.val.some
        THEN Outcome([its EXCEPT ![found.val.val[1] + 1].val[found.val.val[2]].v = v],
                     sc, TRUE, TRUE, FALSE)
        ELSE LET h == default_hash(k, Len(its))
             IN  IF h.panic THEN Outcome(its, sc, FALSE, FALSE, TRUE)
                 ELSE LET i    == h.val
                          item == [k |-> k, v |-> v]
                      IN  IF its[i + 1].some
                          THEN Outcome(Append([its EXCEPT ![i + 1].val = Append(@, item)],
                                              None),
                                       sc + 1, FALSE, TRUE, FALSE)
                          ELSE Outcome([its EXCEPT ![i + 1] = Some(<<item>>)],
                                       sc, FALSE, FALSE, FALSE)

\* the sequence s without its n-th element
Without(s, n) == SubSeq(s, 1, n - 1) \o SubSeq(s, n + 1, Len(s))

\* an insert that puts a new item at the front of an allocated chain
insert_prepend(its, sc, k, v) ==
    LET found == get_item_mut(its, k)
    IN  IF found.panic THEN Outcome(its, sc, FALSE, FALSE, TRUE)
        ELSE IF found.val.some
        THEN Outcome([its EXCEPT ![found.val.val[1] + 1].val[found.val.val[2]].v = v],
                     sc, TRUE, TRUE, FALSE)
        ELSE LET h == default_hash(k, Len(its))
             IN  IF h.panic THEN Outcome(its, sc, FALSE, FALSE, TRUE)
                 ELSE LET i    == h.val
                          item == [k |-> k, v |-> v]
                      IN  IF its[i + 1].some
                          THEN Outcome([its EXCEPT ![i + 1].val = <<item>> \o @],
                                       sc + 1, FALSE, TRUE, FALSE)
                          ELSE Outcome([its EXCEPT ![i + 1] = Some(<<item>>)],
                                       sc, FALSE, FALSE, FALSE)

\* an insert that keeps a chain to two items by dropping its oldest one
insert_evict(its, sc, k, v) ==
    LET found == get_item_mut(its, k)
    IN  IF found.panic THEN Outcome(its, sc, FALSE, FALSE, TRUE)
        ELSE IF found.val.some
        THEN Outcome([its EXCEPT ![found.val.val[1] + 1].val[found.val.val[2]].v = v],
                     sc, TRUE, TRUE, FALSE)
        ELSE LET h == default_hash(k, Len(its))
             IN  IF h.panic THEN Outcome(its, sc, FALSE, FALSE, TRUE)
                 ELSE LET i    == h.val
                          item == [k |-> k, v |-> v]
                      IN  IF its[i + 1].some
                          THEN Outcome([its EXCEPT ![i + 1].val =
                                           IF Len(@) >= 2 THEN Append(Tail(@), item)
                                           ELSE Append(@, item)],
                                       sc + 1, FALSE, TRUE, FALSE)
                          ELSE Outcome([its EXCEPT ![i + 1] = Some(<<item>>)],
                                       sc, FALSE, FALSE, FALSE)

\* an insert that counts an overwrite as a collision
insert_count_overwrite(its, sc, k, v) ==
    LET found == get_item_mut(its, k)
    IN  IF found.panic THEN Outcome(its, sc, FALSE, FALSE, TRUE)
        ELSE IF found.val.some
        THEN Outcome([its EXCEPT ![found.val.val[1] + 1].val[found.val.val[2]].v = v],
                     sc + 1, TRUE, TRUE, FALSE)
        ELSE LET h == default_hash(k, Len(its))
             IN  IF h.panic THEN Outcome(its, sc, FALSE, FALSE, TRUE)
                 ELSE LET i    == h.val
                          item == [k |-> k, v |-> v]
                      IN  IF its[i + 1].some
                          THEN Outcome([its EXCEPT ![i + 1].val = Append(@, item)],
                                       sc + 1, FALSE, TRUE, FALSE)
                          ELSE Outcome([its EXCEPT ![i + 1] = Some(<<item>>)],
                                       sc, FALSE, FALSE, FALSE)

\* an insert that overwrites by removing the item and pushing a new one
insert_reappend(its, sc, k, v) ==
    LET found == get_item_mut(its, k)
    IN  IF found.panic THEN Outcome(its, sc, FALSE, FALSE, TRUE)
        ELSE IF found.val.some
        THEN Outcome([its EXCEPT ![found.val.val[1] + 1].val =
                          Append(Without(@, found.val.val[2]), [k |-> k, v |-> v])],
                     sc, TRUE, TRUE, FALSE)
        ELSE LET h == default_hash(k, Len(its))
             IN  IF h.panic THEN Outcome(its, sc, FALSE, FALSE, TRUE)
                 ELSE LET i    == h.val
                          item == [k |-> k, v |-> v]
                      IN  IF its[i + 1].some
                          THEN Outcome([its EXCEPT ![i + 1].val = Append(@, item)],
                                       sc + 1, FALSE, TRUE, FALSE)
                          ELSE Outcome([its EXCEPT ![i + 1] = Some(<<item>>)],
                                       sc, FALSE, FALSE, FALSE)

\* HashS2T::insert on a table with buckets `its` and counter `sc`
insert(its, sc, k, v) ==
    LET found == get_item_mut(its, k)
    IN  IF found.panic THEN Outcome(its, sc, FALSE, FALSE, TRUE)
        ELSE IF found.val.some
        THEN Outcome([its EXCEPT ![found.val.val[1] + 1].val[found.val.val[2]].v = v],
                     sc, TRUE, TRUE, FALSE)
        ELSE LET h == default_hash(k, Len(its))
             IN  IF h.panic THEN Outcome(its, sc, FALSE, FALSE, TRUE)
                 ELSE LET i    == h.val
                          item == [k |-> k, v |-> v]
                      IN  IF its[i + 1].some
                          THEN Outcome([its EXCEPT ![i + 1].val = Append(@, item)],
                                       sc + 1, FALSE, TRUE, FALSE)
                          ELSE Outcome([its EXCEPT ![i + 1] = Some(<<item>>)],
                                       sc, FALSE, FALSE, FALSE)

InSeq(s, x) == \E n \in 1..Len(s) : s[n] = x

\* a call h.insert(k, v); it needs `&mut h`, so no iterator is held
Insert(k, v) ==
    /\ alive /\ ~panicked /\ it.kind = "none"
    /\ LET r == insert(items, stat_collisions, k, v)
       IN  /\ r.found \/ Count(items) < MaxEntries
           /\ items' = r.items
           /\ stat_collisions' = r.stat_collisions
           /\ panicked' = r.panic
           /\ last' = [op |-> "insert", k |-> k, v |-> v, found |-> r.found,
                       occupied |-> r.occupied, panic |-> r.panic]
           /\ written' = IF r.panic THEN written
                         ELSE [written EXCEPT ![k] = Stored(v)]
           /\ first' = IF r.panic \/ InSeq(first, k) THEN first
                       ELSE Append(first, k)
    /\ UNCHANGED <<alive, it, made>>

\* a get that moves the item it finds to the front of its chain
Get_move_to_front(k) ==
    /\ alive /\ ~panicked /\ it.kind = "none"
    /\ LET r == get(items, k)
           f == get_item(items, k)
       IN  /\ panicked' = r.panic
           /\ last' = [op |-> "get", k |-> k, res |-> r, panic |-> r.panic]
           /\ items' = IF ~f.panic /\ f.val.some
                       THEN [items EXCEPT ![f.val.val[1] + 1].val =
                                <<@[f.val.val[2]]>> \o Without(@, f.val.val[2])]
                       ELSE items
    /\ UNCHANGED <<stat_collisions, alive, it, written, first, made>>

\* a call h.get(k); the caller ends an iteration before it calls the table
Get(k) ==
    /\ alive /\ ~panicked /\ it.kind = "none"
    /\ LET r == get(items, k)
       IN  /\ panicked' = r.panic
           /\ last' = [op |-> "get", k |-> k, res |-> r, panic |-> r.panic]
    /\ UNCHANGED <<items, stat_collisions, alive, it, written, first, made>>

\* a get_mut whose reference is to the head of the chain of the key
get_mut_head(its, k, w) ==
    LET r == get_item_mut(its, k)
    IN  IF r.panic THEN Panic
        ELSE Ok(IF r.val.some /\ w.some
                THEN [its EXCEPT ![r.val.val[1] + 1].val[1].v = w.val]
                ELSE its)

\* HashS2T::get_mut followed by the caller's use of the reference: `w` is
\* the value the caller stores through it, or None for no store (the only
\* choice when get_mut returned None)
get_mut(its, k, w) ==
    LET r == get_item_mut(its, k)
    IN  IF r.panic THEN Panic
        ELSE Ok(IF r.val.some /\ w.some
                THEN [its EXCEPT ![r.val.val[1] + 1].val[r.val.val[2]].v = w.val]
                ELSE its)

GetMut(k, w) ==
    /\ alive /\ ~panicked /\ it.kind = "none"
    /\ LET r == get_item_mut(items, k)
           m == get_mut(items, k, w)
           found == ~r.panic /\ r.val.some
       IN  /\ w.some => found
           /\ panicked' = m.panic
           /\ items' = IF m.panic THEN items ELSE m.val
           /\ last' = [op |-> "get_mut", k |-> k, w |-> w, found |-> found,
                       panic |-> m.panic]
           /\ written' = IF found /\ w.some
                         THEN [written EXCEPT ![k] = Stored(w.val)]
                         ELSE written
    /\ UNCHANGED <<stat_collisions, alive, it, first, made>>

\* -------------------------------------------------------------- iteration
\* The iterator of iter() and into_iter() is Flatten<FilterMap<..>>: `outer`
\* is the number of buckets the outer iterator has consumed, `front` the
\* chain being drained, as Some(<<i, n>>) for bucket i (0-based) with n
\* items already yielded; `out` is what next() has yielded so far and
\* `done` is set once next() has returned None.
NewIter(kind) ==
    [kind |-> kind, outer |-> 0, front |-> None, out |-> <<>>, done |-> FALSE]

\* filter_map(|node| node): the next allocated bucket at or after `outer`,
\* as Some(i) with i 0-based, or None when the bucket vector is exhausted
\* a filter_map that goes to the last allocated bucket instead of the next
filter_map_next_last(its, outer) ==
    LET S == {i \in outer..(Len(its) - 1) : its[i + 1].some}
    IN  IF S = {} THEN None
        ELSE Some(CHOOSE i \in S : \A j \in S : i >= j)

filter_map_next(its, outer) ==
    LET S == {i \in outer..(Len(its) - 1) : its[i + 1].some}
    IN  IF S = {} THEN None
        ELSE Some(CHOOSE i \in S : \A j \in S : i <= j)

\* a flatten that loses the first item of every chain
RECURSIVE flatten_next_skip(_, _, _)
flatten_next_skip(its, outer, front) ==
    IF front.some /\ front.val[2] < Len(its[front.val[1] + 1].val)
    THEN [item  |-> Some(its[front.val[1] + 1].val[front.val[2] + 1]),
          outer |-> outer,
          front |-> Some(<<front.val[1], front.val[2] + 1>>)]
    ELSE LET n == filter_map_next(its, outer)
         IN  IF n.some
             THEN flatten_next_skip(its, n.val + 1, Some(<<n.val, 1>>))
             ELSE [item |-> None, outer |-> Len(its), front |-> None]

\* Flatten::next: [item, outer, front], item = None at the end
RECURSIVE flatten_next(_, _, _)
flatten_next(its, outer, front) ==
    IF front.some /\ front.val[2] < Len(its[front.val[1] + 1].val)
    THEN [item  |-> Some(its[front.val[1] + 1].val[front.val[2] + 1]),
          outer |-> outer,
          front |-> Some(<<front.val[1], front.val[2] + 1>>)]
    ELSE LET n == filter_map_next(its, outer)
         IN  IF n.some
             THEN flatten_next(its, n.val + 1, Some(<<n.val, 0>>))
             ELSE [item |-> None, outer |-> Len(its), front |-> None]

\* h.iter(): borrows the table
Iter ==
    /\ alive /\ ~panicked /\ it.kind = "none"
    /\ it' = NewIter("iter")
    /\ last' = [op |-> "iter"]
    /\ UNCHANGED <<items, stat_collisions, alive, panicked, written, first, made>>

\* h.into_iter(): the table is moved into the iterator
IntoIter ==
    /\ alive /\ ~panicked /\ it.kind = "none"
    /\ it' = NewIter("into_iter")
    /\ alive' = FALSE
    /\ last' = [op |-> "into_iter"]
    /\ UNCHANGED <<items, stat_collisions, panicked, written, first, made>>

\* one call of next() on the iterator held
IterNext ==
    /\ it.kind # "none" /\ ~it.done
    /\ LET r == flatten_next(items, it.outer, it.front)
       IN  it' = [it EXCEPT !.outer = r.outer,
                            !.front = r.front,
                            !.out   = IF r.item.some THEN Append(@, r.item.val) ELSE @,
                            !.done  = ~r.item.some]
    /\ UNCHANGED <<items, stat_collisions, alive, panicked, last, written, first,
                   made>>

\* the borrowing iterator goes out of scope, at any point of the iteration
DropIter ==
    /\ it.kind = "iter"
    /\ it' = NoIter
    /\ UNCHANGED <<items, stat_collisions, alive, panicked, last, written, first,
                   made>>

\* ------------------------------------------------------------ specification
Next ==
    \/ \E k \in Keys, v \in Values : Insert(k, v)
    \/ \E k \in Keys : Get(k)
    \/ \E k \in Keys, w \in {None} \cup {Some(v) : v \in Values} : GetMut(k, w)
    \/ Iter
    \/ IntoIter
    \/ IterNext
    \/ DropIter

Spec == Init /\ [][Next]_vars

\* ------------------------------------------------------------------ helpers
\* number of items of the chain whose key is k
RECURSIVE InChain(_, _)
InChain(chain, k) ==
    IF chain = <<>> THEN 0
    ELSE (IF Head(chain).k = k THEN 1 ELSE 0) + InChain(Tail(chain), k)

\* number of items with key k in the whole table, whatever their bucket
RECURSIVE OccIn(_, _, _)
OccIn(its, S, k) ==
    IF S = {} THEN 0
    ELSE LET i == CHOOSE x \in S : TRUE
         IN  InChain(its[i + 1].val, k) + OccIn(its, S \ {i}, k)

Occurrences(its, k) == OccIn(its, Allocated(its), k)

\* position of x in the sequence s, 0 when absent
Pos(s, x) == IF InSeq(s, x) THEN CHOOSE n \in 1..Len(s) : s[n] = x ELSE 0

\* ------------------------------------------------------------------- claims
\* C1: on a table of positive capacity, get(k) returns the value most
\* recently stored for k for every key that was inserted, and not-found for
\* every key that was never inserted, whatever else is in the key's bucket.
C1_MapBehaviour ==
    Len(items) > 0 =>
        \A k \in Keys :
            get(items, k) = Ok(IF written[k].some THEN Some(written[k].val) ELSE None)

\* a get of a never-inserted key whose bucket holds another key answered,
\* while some key has been inserted more than once
C1_Witness ==
    /\ last.op = "get" /\ ~written[last.k].some /\ last.res = Ok(None)
    /\ Len(items) > 0
    /\ items[default_hash(last.k, Len(items)).val + 1].some
    /\ Count(items) = MaxEntries

\* C2: two distinct keys that were both inserted are both retrievable with
\* their own values in the same state, in either order of insertion, also
\* when they share a bucket.
C2_BothRetrievable ==
    \A k1 \in Keys, k2 \in Keys :
        (k1 # k2 /\ InSeq(first, k1) /\ InSeq(first, k2)) =>
            /\ get(items, k1) = Ok(Some(written[k1].val))
            /\ get(items, k2) = Ok(Some(written[k2].val))

\* "ba" was inserted before "ab", with different values, into a default
\* table, where they share bucket 195
C2_Witness ==
    /\ Len(items) = DEFAULT_HASH2ST_SIZE
    /\ Pos(first, <<98, 97>>) > 0
    /\ Pos(first, <<98, 97>>) < Pos(first, <<97, 98>>)
    /\ written[<<98, 97>>].val # written[<<97, 98>>].val
    /\ Len(items[196].val) = 2

\* C3: an insert of a key that is already present leaves exactly one entry
\* for that key, holding the new value, and the number of entries of the
\* table is what it was before the insert.
C3_Overwrite ==
    [][(last'.op = "insert" /\ last'.found) =>
           /\ Occurrences(items', last'.k) = 1
           /\ get(items', last'.k) = Ok(Some(last'.v))
           /\ Count(items') = Count(items)]_vars

\* an overwrite has happened in a chain of several entries and left a value
\* that differs from the other entries' values
C3_Witness ==
    /\ last.op = "insert" /\ last.found /\ ~last.panic
    /\ \E i \in Allocated(items) :
         /\ Len(items[i + 1].val) >= 2
         /\ \E n \in 1..Len(items[i + 1].val) :
              /\ items[i + 1].val[n].k = last.k
              /\ \E m \in 1..Len(items[i + 1].val) : items[i + 1].val[m].v # last.v

\* C4: insert never fails: on any constructed table, a table of 0 buckets
\* included, a call of insert completes without a panic and the key is
\* retrievable with the inserted value afterwards.
C4_InsertNeverFails ==
    last.op = "insert" =>
        /\ ~last.panic
        /\ ~panicked
        /\ get(items, last.k) = Ok(Some(last.v))

\* C5: on a freshly constructed table of any capacity, 0 included, get and
\* get_mut find nothing for every key and do not panic; with 0 buckets the
\* remainder by the capacity, which would panic, is not evaluated.
C5_EmptyLookup ==
    Count(items) = 0 =>
        \A k \in Keys :
            /\ get(items, k) = Ok(None)
            /\ get_item_mut(items, k) = Ok(None)
            /\ \A w \in {None} \cup {Some(v) : v \in Values} :
                   get_mut(items, k, w) = Ok(items)

\* a get has answered not-found on a table of 0 buckets
C5_Witness ==
    /\ Len(items) = 0
    /\ last.op = "get" /\ last.res = Ok(None) /\ ~panicked

\* C6: an insert adds exactly 1 to the collision counter when its key is
\* not in the table and the bucket of the key is allocated, and leaves the
\* counter alone otherwise (new key into an unallocated bucket, overwrite).
C6_CollisionCounter ==
    [][last'.op = "insert" =>
          stat_collisions' = stat_collisions +
              (IF /\ Len(items) > 0
                  /\ Occurrences(items, last'.k) = 0
                  /\ items[(CharSum(last'.k) % Len(items)) + 1].some
               THEN 1 ELSE 0)]_vars

\* a third key has been added to a chain of two: the counter is at 2 with
\* a single allocated bucket
C6_Witness ==
    /\ last.op = "insert" /\ ~last.found /\ last.occupied
    /\ stat_collisions = 2
    /\ Cardinality(Allocated(items)) = 1
    /\ Count(items) = 3

\* the keys of `first` whose bucket is b, in the order of `first`, each with
\* the value most recently stored for it
ChainOf(b) ==
    LET sel == SelectSeq(first, LAMBDA k : CharSum(k) % Len(items) = b)
    IN  [n \in 1..Len(sel) |-> [k |-> sel[n], v |-> written[sel[n]].val]]

RECURSIVE ExpectedOver(_)
ExpectedOver(S) ==
    IF S = {} THEN <<>>
    ELSE LET b == CHOOSE x \in S : \A y \in S : x <= y
         IN  ChainOf(b) \o ExpectedOver(S \ {b})

\* the inserted keys by ascending bucket index, then by first insertion
ExpectedOrder ==
    ExpectedOver({CharSum(first[n]) % Len(items) : n \in 1..Len(first)})

IsPrefix(s, t) == Len(s) <= Len(t) /\ SubSeq(t, 1, Len(s)) = s

\* C7: iter() and into_iter() yield the entries by ascending bucket index
\* and, within a bucket, in the order in which the keys were first
\* inserted; so both yield the same sequence for the same table.
C7_IterationOrder ==
    it.kind \in {"iter", "into_iter"} =>
        /\ IsPrefix(it.out, ExpectedOrder)
        /\ it.done => it.out = ExpectedOrder

\* a consuming iteration has ended on a table where the key inserted first
\* is not yielded first and one bucket holds a chain of two
C7_Witness ==
    /\ it.kind = "into_iter" /\ it.done
    /\ Len(it.out) = 3
    /\ it.out[1].k # first[1]
    /\ \E i \in Allocated(items) : Len(items[i + 1].val) = 2

\* number of items of the sequence of entries whose key is k
Yielded(out, k) == Cardinality({n \in 1..Len(out) : out[n].k = k})

\* C8: iteration is finite and complete.  An iterator never yields more
\* items than the table stores; until next() has returned None a further
\* call is possible, and every call either yields one more item or returns
\* None, so the iterator ends after at most Count(items) + 1 calls; at its
\* end it has yielded every inserted key exactly once, as many items as
\* distinct keys were inserted.
C8_IterationComplete ==
    /\ [](it.kind # "none" =>
            /\ Len(it.out) <= Count(items)
            /\ ~it.done => ENABLED IterNext
            /\ it.done => /\ Len(it.out) = Len(first)
                           /\ \A k \in Keys :
                                 Yielded(it.out, k) = IF InSeq(first, k) THEN 1 ELSE 0)
    /\ [][(it.kind # "none" /\ it'.kind # "none") =>
             /\ ~it.done
             /\ \/ it'.done /\ it'.out = it.out /\ Len(it.out) = Count(items)
                \/ ~it'.done /\ Len(it'.out) = Len(it.out) + 1]_it

\* a borrowing iteration has ended with 3 items, not all of one value
C8_Witness ==
    /\ it.kind = "iter" /\ it.done
    /\ Len(it.out) = 3
    /\ \E n \in 1..3 : it.out[n].v # it.out[1].v

\* C9: a default table has 256 buckets, all unallocated, and a collision
\* counter of 0; every table has in every state the number of buckets it
\* was constructed with.
C9_CapacityFixed ==
    /\ made.by = "default" => Len(items) = 256
    /\ made.by = "construct" => Len(items) = made.capacity
    /\ last.op = "new" => Allocated(items) = {} /\ stat_collisions = 0

\* a default table has taken three inserts, two of them collisions, and a
\* store through get_mut
C9_Witness ==
    /\ made.by = "default"
    /\ last.op = "get_mut" /\ last.found /\ last.w.some
    /\ stat_collisions = 2

\* k1 and k2 consist of the same characters, each as often in both
IsAnagram(k1, k2) ==
    /\ Len(k1) = Len(k2)
    /\ \A c \in {k1[n] : n \in 1..Len(k1)} \cup {k2[n] : n \in 1..Len(k2)} :
         Cardinality({n \in 1..Len(k1) : k1[n] = c})
             = Cardinality({n \in 1..Len(k2) : k2[n] = c})

\* the capacities the hash function is compared at
HashCapacities == (1..16) \cup {DEFAULT_HASH2ST_SIZE}

\* C10: two distinct keys that are anagrams of one another hash to the same
\* bucket index at every positive capacity; once both are inserted they sit
\* in the same bucket and each is retrievable with its own value.
C10_AnagramCollision ==
    \A k1 \in Keys, k2 \in Keys :
        (k1 # k2 /\ IsAnagram(k1, k2)) =>
            /\ \A c \in HashCapacities : default_hash(k1, c) = default_hash(k2, c)
            /\ (InSeq(first, k1) /\ InSeq(first, k2)) =>
                   /\ get_item(items, k1).val.val[1] = get_item(items, k2).val.val[1]
                   /\ get(items, k1) = Ok(Some(written[k1].val))
                   /\ get(items, k2) = Ok(Some(written[k2].val))

\* in a table of 3 buckets "ab" and "ba" hold different values in a chain
\* of bucket 0, and a get of "ba" has returned its value
C10_Witness ==
    /\ Len(items) = 3
    /\ InSeq(first, <<97, 98>>) /\ InSeq(first, <<98, 97>>)
    /\ written[<<97, 98>>].val # written[<<98, 97>>].val
    /\ last.op = "get" /\ last.k = <<98, 97>>
    /\ last.res = Ok(Some(written[<<98, 97>>].val))
    /\ Len(items[1].val) >= 2

\* C11: get, for a key that is present or absent, and every step of a
\* read-only iteration (creating the iterator, each next(), dropping it)
\* leave the bucket vector, every chain and the collision counter as they
\* were; so the table after a full read-only iteration is the table before.
C11_ReadOnly ==
    [][(last'.op = "get" \/ it.kind = "iter" \/ it'.kind = "iter") =>
           /\ items' = items
           /\ stat_collisions' = stat_collisions]_vars

\* a read-only iteration has run to its end over a chain of three
C11_Witness ==
    /\ it.kind = "iter" /\ it.done
    /\ stat_collisions = 2
    /\ Yielded(it.out, <<97, 98>>) = 1

\* C12: every key stored in the table has exactly one entry in the whole
\* table, and every entry sits in the bucket its key hashes to.
C12_UniquePlacement ==
    \A i \in Allocated(items) :
        \A n \in 1..Len(items[i + 1].val) :
            /\ CharSum(items[i + 1].val[n].k) % Len(items) = i
            /\ Occurrences(items, items[i + 1].val[n].k) = 1

\* a table of 3 buckets holds two chains, three entries, and has just
\* taken an insert of a key it already held
C12_Witness ==
    /\ Len(items) = 3
    /\ Cardinality(Allocated(items)) = 2 /\ Count(items) = 3
    /\ last.op = "insert" /\ last.found

\* its2 is its with the value v in the entries of key k and nothing else
\* changed: same buckets allocated, same keys at the same positions, same
\* values in the entries of other keys
SameButValue(its, its2, k, v) ==
    /\ Len(its2) = Len(its)
    /\ \A i \in 1..Len(its) :
         /\ its2[i].some = its[i].some
         /\ its[i].some =>
              /\ Len(its2[i].val) = Len(its[i].val)
              /\ \A n \in 1..Len(its[i].val) :
                   /\ its2[i].val[n].k = its[i].val[n].k
                   /\ its2[i].val[n].v =
                         IF its[i].val[n].k = k THEN v ELSE its[i].val[n].v

\* C13: an insert of a key that is already present changes the value of the
\* entry of that key and nothing else: not the collision counter, not the
\* position of the entry in its chain, not which buckets are allocated,
\* not the key or value of any other entry.
C13_OverwriteFrame ==
    [][(last'.op = "insert" /\ last'.found) =>
           /\ stat_collisions' = stat_collisions
           /\ SameButValue(items, items', last'.k, last'.v)]_vars

\* the head of a chain of several entries has been overwritten, in a table
\* that has counted a collision
C13_Witness ==
    /\ last.op = "insert" /\ last.found
    /\ stat_collisions >= 1
    /\ \E i \in Allocated(items) :
         /\ Len(items[i + 1].val) >= 2
         /\ items[i + 1].val[1].k = last.k
         /\ items[i + 1].val[2].v # last.v

\* C14: an insert of a key that is not present changes the bucket of the
\* key only: an unallocated bucket becomes a chain of the new entry alone,
\* an allocated one gets the new entry appended at its end, so that the
\* chain before is a prefix of the chain after; no other bucket changes.
C14_InsertAppends ==
    [][(last'.op = "insert" /\ ~last'.found /\ ~last'.panic) =>
           LET i    == CharSum(last'.k) % Len(items)
               item == [k |-> last'.k, v |-> last'.v]
               old  == IF items[i + 1].some THEN items[i + 1].val ELSE <<>>
           IN  /\ Len(items') = Len(items)
               /\ \A j \in 1..Len(items) : j # i + 1 => items'[j] = items[j]
               /\ items'[i + 1] = Some(Append(old, item))
               /\ IsPrefix(old, items'[i + 1].val)
               /\ ~items[i + 1].some => items'[i + 1].val = <<item>>]_vars

\* a new key has been appended to an allocated chain, while another bucket
\* holds a chain of its own
C14_Witness ==
    /\ last.op = "insert" /\ ~last.found /\ last.occupied /\ ~last.panic
    /\ Cardinality(Allocated(items)) = 2
    /\ \E i \in Allocated(items) :
         /\ Len(items[i + 1].val) = 2
         /\ items[i + 1].val[2] = [k |-> last.k, v |-> last.v]

\* the sum of the code points of s, taken by index
RECURSIVE CodePointSum(_, _)
CodePointSum(s, n) == IF n = 0 THEN 0 ELSE CodePointSum(s, n - 1) + s[n]

\* the keys of main, "Woffo" and "Gato", with their hashes at 256 buckets
MainKeys ==
    {[k |-> <<87, 111, 102, 102, 111>>, h |-> 1],
     [k |-> <<71, 97, 116, 111>>, h |-> 139]}

\* C15: for every key and every positive capacity, default_hash returns
\* the sum of the key's code points modulo the capacity, a number from 0
\* to capacity - 1 ("Woffo" gives 1 and "Gato" 139 at 256 buckets); the
\* index of the key of every insert, get and get_mut on a table with
\* buckets is within the bucket vector.
C15_HashResult ==
    /\ \A k \in Keys \cup {m.k : m \in MainKeys}, c \in HashCapacities :
         /\ default_hash(k, c) = Ok(CodePointSum(k, Len(k)) % c)
         /\ default_hash(k, c).val \in 0..(c - 1)
    /\ \A m \in MainKeys : default_hash(m.k, DEFAULT_HASH2ST_SIZE) = Ok(m.h)
    /\ (last.op \in {"insert", "get", "get_mut"} /\ Len(items) > 0) =>
         /\ ~last.panic
         /\ default_hash(last.k, Len(items)).val + 1 \in DOMAIN items

\* get_mut has found "b" + U+0161 in bucket 195 of a default table, which
\* a single code point of that key alone exceeds
C15_Witness ==
    /\ Len(items) = DEFAULT_HASH2ST_SIZE
    /\ last.op = "get_mut" /\ last.found /\ last.k = <<98, 353>>
    /\ items[196].some
    /\ \E n \in 1..Len(items[196].val) : items[196].val[n].k = <<98, 353>>

\* C16: get_mut searches as get does: it finds a value exactly when get
\* does, and nothing in a table of 0 buckets; a store of a value through
\* its reference makes get return that value and changes neither the
\* collision counter nor the order of a chain nor any other entry; without
\* a store the table is unchanged.
C16_GetMut ==
    [][last'.op = "get_mut" =>
          /\ ~last'.panic
          /\ get_item_mut(items, last'.k) = get_item(items, last'.k)
          /\ last'.found = (get(items, last'.k) # Ok(None))
          /\ Len(items) = 0 => ~last'.found
          /\ stat_collisions' = stat_collisions
          /\ IF last'.found /\ last'.w.some
             THEN /\ get(items', last'.k) = Ok(Some(last'.w.val))
                  /\ SameButValue(items, items', last'.k, last'.w.val)
             ELSE items' = items]_vars

\* a store through get_mut has changed the value of the second entry of a
\* chain whose head holds another value
C16_Witness ==
    /\ last.op = "get_mut" /\ last.found /\ last.w.some
    /\ \E i \in Allocated(items) :
         /\ Len(items[i + 1].val) >= 2
         /\ items[i + 1].val[2] = [k |-> last.k, v |-> last.w.val]
         /\ items[i + 1].val[1].v # last.w.val

\* get finds a value for k in the table with buckets its
Has(its, k) == \E v \in Values : get(its, k) = Ok(Some(v))

\* C17: nothing is ever removed: in every step that changes the table, a
\* key that get finds is found by get in the next state, a bucket that is
\* allocated stays allocated, and the number of entries, the number of
\* allocated buckets and the collision counter do not decrease.
C17_NoRemoval ==
    [][(items' # items \/ stat_collisions' # stat_collisions) =>
           /\ \A k \in Keys : Has(items, k) => Has(items', k)
           /\ Allocated(items) \subseteq Allocated(items')
           /\ Count(items') >= Count(items)
           /\ Cardinality(Allocated(items')) >= Cardinality(Allocated(items))
           /\ stat_collisions' >= stat_collisions]_vars

\* a table filled to three entries in two buckets has since taken a store
\* through get_mut, and get still finds all three keys
C17_Witness ==
    /\ last.op = "get_mut" /\ last.found /\ last.w.some
    /\ Count(items) = 3 /\ Cardinality(Allocated(items)) = 2
    /\ Cardinality({k \in Keys : Has(items, k)}) = 3

\* C18: a bucket is either unallocated or holds a chain of at least one
\* entry, and it is allocated exactly when one of the inserted keys hashes
\* to it.
C18_NoEmptyChain ==
    \A i \in 0..(Len(items) - 1) :
        /\ items[i + 1].some => Len(items[i + 1].val) >= 1
        /\ items[i + 1].some <=>
               \E n \in 1..Len(first) : CharSum(first[n]) % Len(items) = i

\* a default table with bucket 97 holding one entry, bucket 195 holding
\* two, and the other 254 buckets unallocated
C18_Witness ==
    /\ Len(items) = DEFAULT_HASH2ST_SIZE
    /\ Allocated(items) = {97, 195}
    /\ Len(items[98].val) = 1 /\ Len(items[196].val) = 2

\* C19: the collision counter equals the number of entries minus the
\* number of allocated buckets, that is the sum over the allocated buckets
\* of the chain length less one.
C19_CounterIdentity ==
    stat_collisions = Count(items) - Cardinality(Allocated(items))

\* three entries in two buckets, the key inserted first holding the value
\* 2, and a get that found a value: one collision counted
C19_Witness ==
    /\ stat_collisions = 1
    /\ Count(items) = 3 /\ Cardinality(Allocated(items)) = 2
    /\ last.op = "get" /\ last.res # Ok(None)
    /\ \E k \in Keys : written[k].some /\ Pos(first, k) = 1 /\ written[k].val = 2

====
